---- MODULE Spec2Model ----
(***************************************************************************)
(* Cookie/JWT authentication of a FastAPI application:                     *)
(*   auth.py  create_access_token, get_current_user                        *)
(*   crud.py  get_user_by_email, create_user, authenticate_user            *)
(*   main.py  register_user, home_page/detail_page                         *)
(*                                                                         *)
(* Time is counted in ticks, TicksPerSecond of them to a second, so that   *)
(* the whole-second "exp" claim of a token and the sub-second clock that   *)
(* validates it are both in the model.  A string is the sequence of its    *)
(* atoms: characters and words [chr |-> c], and compact JWS tokens, which  *)
(* contain no space and are kept as one atom.                              *)
(***************************************************************************)
EXTENDS Integers, Sequences, FiniteSets, TLC

\* ------------------------------------------------------------------ bounds
TicksPerSecond == 2     \* resolution of the clock
MaxFine        == 3     \* ticks the clock makes
MaxUsers       == 2     \* rows the user table may hold

\* -------------------------------------------------------- program constants
SECRET_KEY == "YOUR_SECRET_KEY"
ALGORITHM  == "HS256"
DefaultExpireMinutes == 15
BcryptTruncateSize   == 72

\* Python's None
None == [none |-> TRUE]

\* --------------------------------------------------------------- the clock
DefaultExpireTicks == DefaultExpireMinutes * 60 * TicksPerSecond

\* one second less than the life time of a default token
SleepTicks == DefaultExpireTicks - TicksPerSecond

\* timedelta(...) as a number of ticks; None when the argument is omitted
timedelta(t) == [ticks |-> t]

\* bool(expires_delta): None and timedelta(0) are falsy
Truthy(delta) == delta # None /\ delta.ticks # 0

\* --------------------------------------------------------------- strings
Chr(c) == [chr |-> c]
SP     == Chr(" ")
Str(w) == <<Chr(w)>>          \* a word without a space, kept as one atom

\* s1 + " " + s2
Join(s1, s2) == s1 \o <<SP>> \o s2

\* str.split(" "): the pieces between single spaces, empty pieces included
RECURSIVE SplitFrom(_, _, _)
SplitFrom(s, cur, acc) ==
    IF s = <<>> THEN Append(acc, cur)
    ELSE IF Head(s) = SP THEN SplitFrom(Tail(s), <<>>, Append(acc, cur))
    ELSE SplitFrom(Tail(s), Append(cur, Head(s)), acc)

split(s) == SplitFrom(s, <<>>, <<>>)

\* ------------------------------------------------------------------- dicts
EmptyDict == <<>>

\* data.copy() followed by update({"exp": expire})
DictUpdateExp(data, expire) ==
    [k \in DOMAIN data \cup {"exp"} |-> IF k = "exp" THEN expire ELSE data[k]]

\* ------------------------------------------------------------------- PyJWT
\* HMAC over the signing input: equal exactly for equal key and input
HMAC(key, alg, payload) == [key |-> key, alg |-> alg, over |-> payload]

\* a datetime claim is written as whole seconds since the epoch
NumericDate(ticks) == ticks \div TicksPerSecond

\* jwt.encode(payload, key, algorithm): header.payload.signature, the
\* signature segment in canonical base64url (no stray low bits: pad = 0)
jwt_encode(payload, key, alg) ==
    LET body == [k \in DOMAIN payload |->
                    IF k = "exp" THEN NumericDate(payload[k]) ELSE payload[k]]
    IN  [alg |-> alg, payload |-> body, mac |-> HMAC(key, alg, body), pad |-> 0]

IsJws(atom) == "payload" \in DOMAIN atom

\* jwt.decode as it would be with options={"verify_signature": False}
jwt_decode_unverified(raw, key, algorithms, t) ==
    IF Len(raw) # 1 \/ ~IsJws(raw[1])
    THEN [ok |-> FALSE, err |-> "DecodeError"]
    ELSE [ok |-> TRUE, payload |-> raw[1].payload]

\* jwt.decode(token, key, algorithms) at clock reading t.  The signature
\* segment is base64url-decoded before it is compared, which drops the
\* unused low bits of its last character (pad).
jwt_decode(raw, key, algorithms, t) ==
    IF Len(raw) # 1 \/ ~IsJws(raw[1])
    THEN [ok |-> FALSE, err |-> "DecodeError"]
    ELSE LET tok == raw[1] IN
         IF tok.alg \notin algorithms
         THEN [ok |-> FALSE, err |-> "InvalidAlgorithmError"]
         ELSE IF tok.mac # HMAC(key, tok.alg, tok.payload)
         THEN [ok |-> FALSE, err |-> "InvalidSignatureError"]
         ELSE IF "exp" \in DOMAIN tok.payload
                 /\ tok.payload.exp * TicksPerSecond <= t
         THEN [ok |-> FALSE, err |-> "ExpiredSignatureError"]
         ELSE [ok |-> TRUE, payload |-> tok.payload]

\* ------------------------------------------------------------------ auth.py
\* create_access_token as it would be with the delta left out of the sum
create_access_token_no_delta(data, expires_delta, t) ==
    jwt_encode(DictUpdateExp(data, t), SECRET_KEY, ALGORITHM)

create_access_token(data, expires_delta, t) ==
    LET expire == IF Truthy(expires_delta)
                  THEN t + expires_delta.ticks
                  ELSE t + DefaultExpireTicks
    IN  jwt_encode(DictUpdateExp(data, expire), SECRET_KEY, ALGORITHM)

HTTPException(status_code, detail, headers) ==
    [status_code |-> status_code, detail |-> detail, headers |-> headers]

WWWAuthenticateBearer == "WWW-Authenticate: Bearer"

\* the first raise as it would be with the exception of the other raises
NotAuthenticated_as_credentials ==
    HTTPException(401, "Could not validate credentials", WWWAuthenticateBearer)

NotAuthenticated ==
    HTTPException(401, "Not authenticated", WWWAuthenticateBearer)

credentials_exception ==
    HTTPException(401, "Could not validate credentials", WWWAuthenticateBearer)

\* an exception no handler of the application catches
Unhandled(name) == [unhandled |-> name]

IsHTTPException(r) == "status_code" \in DOMAIN r
IsUser(r)          == "username" \in DOMAIN r

\* request.cookies.get("access_token"): an optional string, written as the
\* tuple of no string (Python's None) or of the one string
cookies_get(cookies) ==
    IF "access_token" \in DOMAIN cookies THEN <<cookies.access_token>> ELSE <<>>

\* not token: None or the empty string
Falsy(token) == token = <<>> \/ token[1] = <<>>

\* get_current_user up to its await: either raises or has the email to look up
ValidateToken(cookies, t) ==
    LET token == cookies_get(cookies) IN
    IF Falsy(token) THEN [raise |-> NotAuthenticated]
    ELSE LET parts == split(token[1]) IN
         IF Len(parts) < 2 THEN [raise |-> Unhandled("IndexError")]
         ELSE LET d == jwt_decode(parts[2], SECRET_KEY, {ALGORITHM}, t) IN
              IF ~d.ok THEN [raise |-> credentials_exception]
              ELSE IF "sub" \notin DOMAIN d.payload
              THEN [raise |-> credentials_exception]
              ELSE [email |-> d.payload.sub]

\* ------------------------------------------------------------------ crud.py
\* result.scalars().first() of the rows whose email matches
get_user_by_email(db, email) ==
    LET hits == {i \in 1..Len(db) : db[i].email = email} IN
    IF hits = {} THEN None
    ELSE db[CHOOSE i \in hits : \A j \in hits : i <= j]

\* get_current_user after its await
ResolveIdentity(db, email) ==
    LET user == get_user_by_email(db, email) IN
    IF user = None THEN credentials_exception ELSE user

\* pwd_context = CryptContext(schemes=["bcrypt"]): bcrypt reads at most the
\* first BcryptTruncateSize bytes of the password
Truncate(password) ==
    SubSeq(password, 1,
           IF Len(password) < BcryptTruncateSize THEN Len(password)
           ELSE BcryptTruncateSize)

\* pwd_context.hash(password) under the salt it drew: the salt and a digest
\* that is equal exactly for equal salt and equal bytes read
pwd_context_hash(password, salt) == <<"$2b$", salt>> \o Truncate(password)

\* pwd_context.verify(password, hash): re-hash under the stored salt
pwd_context_verify(password, hash) ==
    /\ Len(hash) >= 2
    /\ hash[1] = "$2b$"
    /\ hash = pwd_context_hash(password, hash[2])

\* User(username=..., email=..., password=hashed_password) after refresh
User(id, username, email, hashed_password) ==
    [id |-> id, username |-> username, email |-> email,
     password |-> hashed_password]

\* the table as it would be without a constraint on email
EmailUnique_unconstrained(db, email) == TRUE

\* the table's UNIQUE constraint on email, checked by the commit
EmailUnique(db, email) == \A i \in 1..Len(db) : db[i].email # email

\* create_user as it would be with the password stored as received
create_user_plain(db, username, email, password, salt) ==
    IF EmailUnique(db, email)
    THEN Append(db, User(Len(db) + 1, username, email, password))
    ELSE db

\* create_user: the table after db.add, db.commit (unchanged when the
\* commit fails)
create_user(db, username, email, password, salt) ==
    LET hashed_password == pwd_context_hash(password, salt)
        user == User(Len(db) + 1, username, email, hashed_password)
    IN  IF EmailUnique(db, email) THEN Append(db, user) ELSE db

authenticate_user(db, email, password) ==
    LET user == get_user_by_email(db, email) IN
    IF user # None /\ pwd_context_verify(password, user.password)
    THEN user ELSE None

\* ------------------------------------------------------------------ inputs
Emails    == {"a@x.com", "b@x.com"}
Subjects  == {""} \cup Emails
Salts     == {"s1", "s2"}
Pw1       == <<"p", "w", "1">>
PwWrong   == <<"w", "r", "o", "n", "g">>
PwLong    == [i \in 1..BcryptTruncateSize |-> "a"]
PwLonger  == Append(PwLong, "b")
\* a password that reads like a stored hash
PwHashLike == pwd_context_hash(Pw1, "s1")
Passwords == {Pw1, PwWrong, PwLong, PwLonger, PwHashLike}

\* the dicts handed to create_access_token: with and without "sub"
Datas  == {EmptyDict} \cup {[sub |-> s] : s \in Subjects}
\* the expires_delta arguments: omitted, negative, zero, below and from 1 s
Deltas == {None} \cup
          {timedelta(t) : t \in {-1, 0, 1, TicksPerSecond, TicksPerSecond + 1}}

\* the requests in flight
Requests == {"r1"}

\* ------------------------------------------------- what a client can send
\* a token signed by somebody who does not hold SECRET_KEY
Forged(payload, alg) ==
    [alg |-> alg, payload |-> payload,
     mac |-> HMAC("attacker", alg, payload), pad |-> 0]

ForgedTokens ==
    <<Forged([sub |-> "a@x.com"], ALGORITHM), Forged([sub |-> "a@x.com"], "none")>>

\* a token signed with SECRET_KEY by other code than create_access_token (the
\* key is a literal of the source): claims of the signer's choice, here
\* without "exp"
SignedElsewhere == jwt_encode([sub |-> "a@x.com"], SECRET_KEY, ALGORITHM)

WithSub(payload, s) ==
    [k \in DOMAIN payload \cup {"sub"} |-> IF k = "sub" THEN s ELSE payload[k]]

\* the last character of the signature segment replaced by one that differs
\* in its unused low bits only
RepadSignature(tok) == [tok EXCEPT !.pad = 1]
\* the signature segment replaced by other signature bytes
ReplaceSignature(tok) == [tok EXCEPT !.mac = HMAC("attacker", tok.alg, tok.payload)]
\* the payload segment rewritten, the signature kept
RewriteSub(tok, s) == [tok EXCEPT !.payload = WithSub(tok.payload, s)]

Bearer(raw) == Join(Str("Bearer"), raw)

\* the strings a client sends as access_token, made of the token it holds
\* (tok # None) and of what anybody can write; a tuple, in no special order
CookieValues(tok) ==
    <<  <<>>,
        Str("Bearer"),
        Bearer(Str("garbage")),
        Bearer(<<ForgedTokens[1]>>),
        Bearer(<<ForgedTokens[2]>>),
        Bearer(<<SignedElsewhere>>) >>
    \o IF tok = None THEN <<>>
       ELSE << Bearer(<<tok>>),
               Bearer(<<RepadSignature(tok)>>),
               Bearer(<<ReplaceSignature(tok)>>),
               Bearer(<<RewriteSub(tok, "a@x.com")>>),
               Bearer(<<RewriteSub(tok, "b@x.com")>>),
               <<tok>>,
               Join(Str("Basic"), <<tok>>),
               Str("Bearer") \o <<SP, SP, tok>> >>

\* request.cookies: without or with an access_token
CookieJars(tok) ==
    <<EmptyDict>> \o
    [i \in 1..Len(CookieValues(tok)) |-> [access_token |-> CookieValues(tok)[i]]]

\* ------------------------------------------------------------------- state
VARIABLES
    now,      \* the clock, in ticks
    users,    \* the users table, rows in insertion order
    plain,    \* per row, the password typed at registration (history)
    issued,   \* the token create_access_token returned last, or None
    req,      \* the requests passing through get_current_user
    auth,     \* the last call of authenticate_user: its arguments, the number
              \* of rows it found in the table and its result; or None
    client,   \* a browser: its cookie jar and what it did last (history)
    resp,     \* the last answer of POST /login or POST /logout, or None
    reg       \* the registrations between db.add and db.commit

vars == <<now, users, plain, issued, req, auth, client, resp, reg>>

\* a browser that has not logged in: jar is its cookie jar, kept a copy of
\* the cookie the last login set (a copy survives the deletion of the
\* cookie), loggedOut whether it logged out since that login, sent which
\* cookie its request in flight carries
\* the browser: its cookie jar; and, as history, a copy of the jar as the
\* last login left it, who logged in and when, and whether it has logged
\* out since
NewClient == [jar |-> EmptyDict, kept |-> EmptyDict, user |-> None,
              loggedOut |-> FALSE, at |-> 0]

\* the registrations in flight
Registrations == {"g1", "g2"}
NoRegistration == [pc |-> "idle", username |-> "", email |-> "",
                   password |-> <<>>, hashed |-> <<>>, out |-> None]

\* via (history): where the cookies of the request came from
Idle == [pc |-> "idle", cookies |-> EmptyDict, at |-> 0, email |-> "",
         looked |-> FALSE, out |-> None, via |-> "none"]

Init ==
    /\ now = 0
    /\ users = <<>>
    /\ plain = <<>>
    /\ issued = None
    /\ req = [r \in Requests |-> Idle]
    /\ auth = None
    /\ client = NewClient
    /\ resp = None
    /\ reg = [k \in Registrations |-> NoRegistration]

\* ----------------------------------------------------------------- actions
Tick ==
    /\ now % SleepTicks < MaxFine
    /\ now' = now + 1
    /\ UNCHANGED <<users, plain, issued, req, auth, client, resp, reg>>

\* POST /register
register_user(username, email, password, salt) ==
    /\ Len(users) < MaxUsers
    /\ users' = create_user(users, username, email, password, salt)
    /\ plain' = IF Len(users') > Len(users) THEN Append(plain, password) ELSE plain
    /\ UNCHANGED <<now, issued, req, auth, client, resp, reg>>

\* a call of authenticate_user
Authenticate(email, password) ==
    /\ auth' = [email |-> email, password |-> password, rows |-> Len(users),
                result |-> authenticate_user(users, email, password)]
    /\ UNCHANGED <<now, users, plain, issued, req, client, resp, reg>>

\* a call of create_access_token; the client that receives the token has
\* no request in flight
IssueToken(data, expires_delta) ==
    /\ \A r \in DOMAIN req : req[r].pc = "idle"
    /\ issued' = [token |-> create_access_token(data, expires_delta, now),
                  at |-> now, data |-> data, delta |-> expires_delta]
    /\ UNCHANGED <<now, users, plain, req, auth, client, resp, reg>>

HeldToken == IF issued = None THEN None ELSE issued.token

\* the activation as it would be if a logout revoked the tokens of the client
Activation_revoking(cookies, t, via) ==
    LET v == ValidateToken(cookies, t) IN
    IF "raise" \in DOMAIN v \/ client.loggedOut
    THEN [pc |-> "done", cookies |-> cookies, at |-> t,
          email |-> "", looked |-> FALSE,
          out |-> IF "raise" \in DOMAIN v THEN v.raise ELSE credentials_exception,
          via |-> via]
    ELSE [pc |-> "lookup", cookies |-> cookies, at |-> t,
          email |-> v.email, looked |-> FALSE, out |-> None, via |-> via]

\* the activation of get_current_user after lines 26-45
Activation(cookies, t, via) ==
    LET v == ValidateToken(cookies, t) IN
    IF "raise" \in DOMAIN v
    THEN [pc |-> "done", cookies |-> cookies, at |-> t,
          email |-> "", looked |-> FALSE, out |-> v.raise, via |-> via]
    ELSE [pc |-> "lookup", cookies |-> cookies, at |-> t,
          email |-> v.email, looked |-> FALSE, out |-> None, via |-> via]

\* get_current_user, lines 26-45: runs to a raise or to the await of the lookup
GetCurrentUser(r, cookies) ==
    /\ req[r].pc = "idle"
    /\ req' = [req EXCEPT ![r] = Activation(cookies, now, "any")]
    /\ UNCHANGED <<now, users, plain, issued, auth, client, resp, reg>>

\* get_current_user, lines 46-49: the lookup answers
\* the lookup as it would be if the email to look up were kept in a variable
\* shared by the requests: it reads what another suspended request wrote
LookupReturns_shared(r) ==
    LET others == {o \in DOMAIN req : o # r /\ req[o].pc = "lookup"}
        from   == IF others = {} THEN r ELSE CHOOSE o \in others : TRUE
    IN  /\ req[r].pc = "lookup"
        /\ req' = [req EXCEPT ![r].pc = "done", ![r].looked = TRUE,
                              ![r].out = ResolveIdentity(users, req[from].email)]
        /\ UNCHANGED <<now, users, plain, issued, auth, client, resp, reg>>

\* the lookup as it would be if it marked the record it found
LookupReturns_touching(r) ==
    /\ req[r].pc = "lookup"
    /\ req' = [req EXCEPT ![r].pc = "done", ![r].looked = TRUE,
                          ![r].out = ResolveIdentity(users, req[r].email)]
    /\ users' = [i \in 1..Len(users) |->
                   IF users[i].email = req[r].email
                   THEN [users[i] EXCEPT !.username = "seen"] ELSE users[i]]
    /\ UNCHANGED <<now, plain, issued, auth, client, resp, reg>>

LookupReturns(r) ==
    /\ req[r].pc = "lookup"
    /\ req' = [req EXCEPT ![r].pc = "done", ![r].looked = TRUE,
                          ![r].out = ResolveIdentity(users, req[r].email)]
    /\ UNCHANGED <<now, users, plain, issued, auth, client, resp, reg>>

\* the response is sent and the request's context is discarded
RequestEnds(r) ==
    /\ req[r].pc = "done"
    /\ req' = [req EXCEPT ![r] = Idle]
    /\ UNCHANGED <<now, users, plain, issued, auth, client, resp, reg>>

Next ==
    \/ Tick
    \/ \E e \in Emails : register_user("bob", e, Pw1, "s1")
    \/ \E d \in Datas, delta \in Deltas : IssueToken(d, delta)
    \/ \E r \in Requests, i \in 1..Len(CookieJars(HeldToken)) :
          GetCurrentUser(r, CookieJars(HeldToken)[i])
    \/ \E r \in Requests : LookupReturns(r)
    \/ \E r \in Requests : RequestEnds(r)

Spec == Init /\ [][Next]_vars

NextCrud ==
    \/ \E u \in {"bob", "eve"}, e \in Emails, p \in Passwords, s \in Salts :
          register_user(u, e, p, s)
    \/ \E e \in Emails, p \in Passwords : Authenticate(e, p)

SpecCrud == Init /\ [][NextCrud]_vars

\* ------------------------------------------------------------------ main.py
DQ == Chr("\"")

\* http.cookies as Starlette's set_cookie uses it: a value holding a
\* character outside the legal ones (here: the space) is sent in double quotes
CookieQuote(value) ==
    IF \E i \in 1..Len(value) : value[i] = SP
    THEN <<DQ>> \o value \o <<DQ>>
    ELSE value

\* Starlette's cookie_parser: strips the double quotes round a value
CookieUnquote(value) ==
    IF Len(value) >= 2 /\ value[1] = DQ /\ value[Len(value)] = DQ
    THEN SubSeq(value, 2, Len(value) - 1)
    ELSE value

\* response.set_cookie(key=..., value=..., httponly=...): the Set-Cookie header
set_cookie(key, value, httponly) ==
    [key |-> key, value |-> CookieQuote(value), httponly |-> httponly,
     max_age |-> ""]

\* response.delete_cookie(key): an empty value that expires at once
delete_cookie(key) ==
    [key |-> key, value |-> CookieQuote(<<>>), httponly |-> FALSE,
     max_age |-> "0"]

RedirectResponse(url, status_code, header) ==
    [status_code |-> status_code, location |-> url, set_cookie |-> header]

\* the raise of login, line 35
IncorrectLogin == HTTPException(401, "Incorrect email or password", "")

\* login as it would be with the bare token as the cookie's value
login_bare_token(db, email, password, t) ==
    LET user == authenticate_user(db, email, password) IN
    IF user = None
    THEN [out |-> IncorrectLogin, token |-> None]
    ELSE LET access_token == create_access_token([sub |-> user.email], None, t)
         IN  [out |-> RedirectResponse("/home", 303,
                         set_cookie("access_token", <<access_token>>, TRUE)),
              token |-> access_token]

\* login, lines 33-39: what it raises or returns, and the token it made
login(db, email, password, t) ==
    LET user == authenticate_user(db, email, password) IN
    IF user = None
    THEN [out |-> IncorrectLogin, token |-> None]
    ELSE LET access_token == create_access_token([sub |-> user.email], None, t)
         IN  [out |-> RedirectResponse("/home", 303,
                         set_cookie("access_token", Bearer(<<access_token>>), TRUE)),
              token |-> access_token]

\* logout as it would be if it deleted a cookie of another name
logout_other_cookie == RedirectResponse("/login", 303, delete_cookie("token"))

\* logout, lines 65-68
logout == RedirectResponse("/login", 303, delete_cookie("access_token"))

\* db.commit() of create_user, line 16, for the row added by line 15
db_commit(db, row) ==
    IF EmailUnique(db, row.email)
    THEN Append(db, User(Len(db) + 1, row.username, row.email, row.hashed))
    ELSE db

\* the browser applies a Set-Cookie header to its jar
ApplySetCookie(jar, header) ==
    IF header.key # "access_token" THEN jar
    ELSE IF header.max_age = "0" THEN EmptyDict
    ELSE [access_token |-> header.value]

\* request.cookies of a request that carries the jar
ParseCookies(jar) == [k \in DOMAIN jar |-> CookieUnquote(jar[k])]

\* the cookies a call of /logout may carry: none, an invalid token, the jar's
LogoutCookies(jar) ==
    <<EmptyDict, [access_token |-> Bearer(Str("garbage"))], ParseCookies(jar)>>

\* POST /login
Login(email, password) ==
    LET r == login(users, email, password, now) IN
    /\ resp' = [route |-> "login", email |-> email, password |-> password,
                cookies |-> EmptyDict, out |-> r.out, token |-> r.token]
    /\ IF r.token = None
       THEN UNCHANGED <<client, issued>>
       ELSE /\ client' = [jar |-> ApplySetCookie(client.jar, r.out.set_cookie),
                          kept |-> ApplySetCookie(client.jar, r.out.set_cookie),
                          user |-> get_user_by_email(users, email),
                          loggedOut |-> FALSE, at |-> now]
            /\ issued' = [token |-> r.token, at |-> now,
                          data |-> [sub |-> email], delta |-> None]
    /\ UNCHANGED <<now, users, plain, req, auth, reg>>

\* POST /logout
Logout(i) ==
    /\ resp' = [route |-> "logout", email |-> "", password |-> <<>>,
                cookies |-> LogoutCookies(client.jar)[i], out |-> logout,
                token |-> None]
    /\ client' = [client EXCEPT !.jar = ApplySetCookie(client.jar, logout.set_cookie),
                                !.loggedOut = TRUE]
    /\ UNCHANGED <<now, users, plain, issued, req, auth, reg>>

\* a protected request of the browser: it carries the jar, or (a replay) the
\* copy of the jar kept from the last login
ClientRequest(r, which) ==
    /\ req[r].pc = "idle"
    /\ req' = [req EXCEPT ![r] =
                 Activation(ParseCookies(client[which]), now,
                            IF client.loggedOut THEN which \o " after logout"
                            ELSE which \o " logged in")]
    /\ UNCHANGED <<now, users, plain, issued, auth, client, resp, reg>>

\* the request is cancelled while suspended on the lookup: CancelledError at
\* line 46 unwinds get_current_user
Cancel(r) ==
    /\ req[r].pc = "lookup"
    /\ req' = [req EXCEPT ![r] = [Idle EXCEPT !.via = "cancelled"]]
    /\ UNCHANGED <<now, users, plain, issued, auth, client, resp, reg>>

\* the client waits just short of the default life time of a token
Sleep ==
    /\ now < SleepTicks
    /\ now' = now + SleepTicks
    /\ UNCHANGED <<users, plain, issued, req, auth, client, resp, reg>>

\* register_user up to the await of db.commit(): lines 13-15 of create_user
RegisterBegin(k, username, email, password, salt) ==
    /\ reg[k].pc = "idle"
    /\ Len(users) < MaxUsers
    /\ reg' = [reg EXCEPT ![k] =
                 [pc |-> "commit", username |-> username, email |-> email,
                  password |-> password,
                  hashed |-> pwd_context_hash(password, salt), out |-> None]]
    /\ UNCHANGED <<now, users, plain, issued, req, auth, client, resp>>

\* the commit: the row is stored, or IntegrityError ends the request
RegisterCommit(k) ==
    /\ reg[k].pc = "commit"
    /\ users' = db_commit(users, reg[k])
    /\ plain' = IF users' = users THEN plain ELSE Append(plain, reg[k].password)
    /\ reg' = [reg EXCEPT ![k] =
                 [NoRegistration EXCEPT
                    !.email = reg[k].email,
                    !.out = IF users' = users THEN Unhandled("IntegrityError")
                            ELSE RedirectResponse("/login", 303, None)]]
    /\ UNCHANGED <<now, issued, req, auth, client, resp>>

NextApp ==
    \/ Tick
    \/ Sleep
    \/ \E e \in Emails : register_user("bob", e, Pw1, "s1")
    \/ \E e \in Emails, p \in {Pw1, PwWrong} : Login(e, p)
    \/ \E i \in 1..3 : Logout(i)
    \/ \E r \in Requests, which \in {"jar", "kept"} : ClientRequest(r, which)
    \/ \E r \in Requests : LookupReturns(r)
    \/ \E r \in Requests : Cancel(r)
    \/ \E r \in Requests : RequestEnds(r)

SpecApp == Init /\ [][NextApp]_vars

\* registration, login and logout with passwords of every length
NextLogin ==
    \/ \E e \in Emails, p \in {Pw1, PwLong} : register_user("bob", e, p, "s1")
    \/ \E e \in Emails, p \in Passwords : Login(e, p)
    \/ \E i \in 1..3 : Logout(i)

SpecLogin == Init /\ [][NextLogin]_vars

\* two protected requests in flight together
Concurrent == {"r1", "r2"}

InitConc ==
    /\ now = 0
    /\ users = <<>>
    /\ plain = <<>>
    /\ issued = None
    /\ req = [r \in Concurrent |-> Idle]
    /\ auth = None
    /\ client = NewClient
    /\ resp = None
    /\ reg = [k \in Registrations |-> NoRegistration]

NextConc ==
    \/ \E e \in Emails : register_user("bob", e, Pw1, "s1")
    \/ IssueToken([sub |-> "b@x.com"], None)
    \/ \E r \in Concurrent, i \in 1..Len(CookieJars(HeldToken)) :
          GetCurrentUser(r, CookieJars(HeldToken)[i])
    \/ \E r \in Concurrent : LookupReturns(r)
    \/ \E r \in Concurrent : RequestEnds(r)

SpecConc == InitConc /\ [][NextConc]_vars

\* registrations in flight together
NextReg ==
    \/ \E k \in Registrations, u \in {"bob", "eve"}, e \in Emails,
          p \in {Pw1, PwWrong}, sl \in Salts : RegisterBegin(k, u, e, p, sl)
    \/ \E k \in Registrations : RegisterCommit(k)
    \/ \E e \in Emails, p \in {Pw1, PwWrong} : Authenticate(e, p)

SpecReg == Init /\ [][NextReg]_vars

\* ------------------------------------------------------------------ claims
HasCookie(q)    == "access_token" \in DOMAIN q.cookies
CookieString(q) == q.cookies.access_token
Started(q)      == q.pc # "idle"
Ended(q)        == q.pc = "done"

\* a signature made with the server secret under HS256 over these claims
ServerSigned(tok) ==
    /\ tok.alg = "HS256"
    /\ tok.mac = HMAC("YOUR_SECRET_KEY", "HS256", tok.payload)

\* the token is not yet expired at clock reading t
Unexpired(tok, t) ==
    /\ "exp" \in DOMAIN tok.payload
    /\ tok.payload.exp * TicksPerSecond > t

InvalidTokenResponse ==
    [status_code |-> 401, detail |-> "Could not validate credentials",
     headers |-> "WWW-Authenticate: Bearer"]

\* the request carries "Bearer <tok>"
SendsBearer(q, tok) == HasCookie(q) /\ CookieString(q) = Bearer(<<tok>>)

\* the piece of the cookie that get_current_user hands to jwt.decode
Extracted(q) == split(CookieString(q))[2]

\* C1: get_current_user returns a user u only if the cookie carries a token
\* signed with the server secret under HS256, whose exp is later than the time
\* of validation and whose sub is u.email, u being the table's record for that
\* email; and a token whose signature does not verify is rejected whatever
\* its claims are.
C1_Soundness ==
    \A r \in Requests :
      LET q == req[r] IN
      /\ (Ended(q) /\ IsUser(q.out)) =>
            /\ HasCookie(q)
            /\ \E i \in 1..Len(CookieString(q)) :
                 LET tok == CookieString(q)[i] IN
                 /\ IsJws(tok)
                 /\ ServerSigned(tok)
                 /\ Unexpired(tok, q.at)
                 /\ "sub" \in DOMAIN tok.payload
                 /\ tok.payload.sub = q.out.email
            /\ \E i \in 1..Len(users) :
                 /\ users[i] = q.out
                 /\ \A j \in 1..(i - 1) : users[j].email # q.out.email
      /\ (Started(q) /\ HasCookie(q) /\ Len(split(CookieString(q))) >= 2
            /\ Len(Extracted(q)) = 1 /\ IsJws(Extracted(q)[1])
            /\ ~ServerSigned(Extracted(q)[1])) =>
            (Ended(q) /\ q.out = InvalidTokenResponse /\ ~q.looked)


\* C2: every request ends with a user or with 401 and WWW-Authenticate: Bearer
C2_TwoOutcomes ==
    \A r \in Requests :
      Ended(req[r]) =>
        \/ IsUser(req[r].out)
        \/ /\ IsHTTPException(req[r].out)
           /\ req[r].out.status_code = 401
           /\ req[r].out.headers = "WWW-Authenticate: Bearer"

\* C3: a request without an access_token cookie ends with 401, "Not
\* authenticated" and WWW-Authenticate: Bearer, and with no unhandled error
C3_NoCookie ==
    \A r \in Requests :
      (Started(req[r]) /\ ~HasCookie(req[r])) =>
        /\ Ended(req[r])
        /\ req[r].out = [status_code |-> 401, detail |-> "Not authenticated",
                         headers |-> "WWW-Authenticate: Bearer"]

C3_Witness ==
    \E r \in Requests : Ended(req[r]) /\ ~HasCookie(req[r]) /\ issued # None

StartsWithBearer(s) == Len(s) >= 2 /\ s[1] = Chr("Bearer") /\ s[2] = SP

\* C4: a non-empty cookie that does not start with "Bearer " is rejected as an
\* invalid token and is never authenticated
C4_PrefixRequired ==
    \A r \in Requests :
      LET q == req[r] IN
      (Ended(q) /\ HasCookie(q) /\ CookieString(q) # <<>>
         /\ ~StartsWithBearer(CookieString(q))) =>
        q.out = InvalidTokenResponse

\* the request carries, untouched, the token issued last for a subject
SendsIssued(q) ==
    /\ issued # None
    /\ "sub" \in DOMAIN issued.data
    /\ SendsBearer(q, issued.token)

\* C5: a token issued with any ttl is rejected as invalid once more than ttl
\* has passed since it was issued
C5_Expiry ==
    \A r \in Requests :
      LET q == req[r] IN
      (Ended(q) /\ SendsIssued(q) /\ issued.delta # None
         /\ q.at > issued.at + issued.delta.ticks) =>
        q.out = InvalidTokenResponse

\* validation let the request through to the lookup, with this subject
Validated(q, s) == (q.pc = "lookup" \/ q.looked) /\ q.email = s

\* C6 as stated: a token issued for s with any ttl > 0 and validated at once
\* passes validation and yields s
C6_RoundTrip ==
    \A r \in Requests :
      LET q == req[r] IN
      (Started(q) /\ SendsIssued(q) /\ issued.delta # None
         /\ issued.delta.ticks > 0 /\ q.at = issued.at) =>
        Validated(q, issued.data.sub)

\* C6 amended: a token issued for s with a ttl of one second or more and
\* validated at once passes validation and yields s
C6_RoundTripFromOneSecond ==
    \A r \in Requests :
      LET q == req[r] IN
      (Started(q) /\ SendsIssued(q) /\ issued.delta # None
         /\ issued.delta.ticks >= TicksPerSecond /\ q.at = issued.at) =>
        Validated(q, issued.data.sub)

C6_Witness ==
    \E r \in Requests :
      LET q == req[r] IN
      /\ Started(q) /\ SendsIssued(q) /\ issued.delta # None
      /\ issued.delta.ticks >= TicksPerSecond /\ q.at = issued.at
      /\ issued.at > 0 /\ issued.data.sub = "a@x.com"
      /\ Ended(q) /\ IsUser(q.out)

\* the request carries the issued token with another signature segment
SendsResigned(q) ==
    /\ issued # None
    /\ HasCookie(q)
    /\ \E i \in 1..Len(CookieValues(issued.token)) :
         LET s == CookieValues(issued.token)[i] IN
         /\ CookieString(q) = s
         /\ StartsWithBearer(s) /\ Len(s) = 3 /\ IsJws(s[3])
         /\ s[3].alg = issued.token.alg
         /\ s[3].payload = issued.token.payload
         /\ <<s[3].mac, s[3].pad>> # <<issued.token.mac, issued.token.pad>>

\* C7 as stated: the issued token with any change to its signature segment is
\* rejected as invalid
C7_TamperedSignature ==
    \A r \in Requests :
      (Ended(req[r]) /\ SendsResigned(req[r])) =>
        req[r].out = InvalidTokenResponse

\* C7 amended: the issued token with a signature segment that decodes to
\* other signature bytes is rejected as invalid
C7_TamperedSignatureBytes ==
    \A r \in Requests :
      (Started(req[r]) /\ SendsResigned(req[r])
         /\ Extracted(req[r])[1].mac # issued.token.mac) =>
        (Ended(req[r]) /\ req[r].out = InvalidTokenResponse)

\* C7 witness: the token would have been accepted with its own signature
C7_Witness ==
    \E r \in Requests :
      /\ Ended(req[r]) /\ SendsResigned(req[r])
      /\ Extracted(req[r])[1].mac # issued.token.mac
      /\ Unexpired(issued.token, req[r].at)
      /\ "sub" \in DOMAIN issued.data
      /\ get_user_by_email(users, issued.data.sub) # None

\* C8: a correctly signed, unexpired token without sub or with an empty sub is
\* rejected at validation, before any lookup in the user table
C8_SubRequired ==
    \A r \in Requests :
      LET q == req[r] IN
      (Started(q) /\ HasCookie(q) /\ StartsWithBearer(CookieString(q))
         /\ Len(CookieString(q)) = 3 /\ IsJws(CookieString(q)[3])
         /\ ServerSigned(CookieString(q)[3])
         /\ Unexpired(CookieString(q)[3], q.at)
         /\ ("sub" \in DOMAIN CookieString(q)[3].payload
               => CookieString(q)[3].payload.sub = "")) =>
        (Ended(q) /\ q.out = InvalidTokenResponse /\ ~q.looked)

\* what the caller sees when the subject of a valid token is in no row
UnknownUserResponse == ResolveIdentity(<<>>, "a@x.com")

\* C9: whenever a cookie is sent and no user is returned, the response is the
\* one of the unknown user
C9_Indistinguishable ==
    \A r \in Requests :
      LET q == req[r] IN
      (Ended(q) /\ HasCookie(q) /\ CookieString(q) # <<>> /\ ~IsUser(q.out)) =>
        q.out = UnknownUserResponse

\* C10: authenticate_user returns the row registered with the email when the
\* password is the one typed at that registration, and None for any other
\* password and for an email that was not registered
C10_Authenticate ==
    auth # None =>
      LET rows == {i \in 1..auth.rows : users[i].email = auth.email} IN
      /\ rows = {} => auth.result = None
      /\ \A i \in rows :
           /\ auth.password = plain[i] => auth.result = users[i]
           /\ auth.password # plain[i] => auth.result = None

\* the last response is that of a successful login
LoginSucceeded == resp # None /\ resp.route = "login" /\ resp.token # None

\* the response of a successful login of resp.email: a 303 redirect that sets
\* the HTTP-only cookie access_token to "Bearer <token>", the token signed by
\* the server with that user's email as sub
LoginResponseOk ==
    LET u == get_user_by_email(users, resp.email) IN
    /\ u # None
    /\ "status_code" \in DOMAIN resp.out /\ resp.out.status_code = 303
    /\ "set_cookie" \in DOMAIN resp.out
    /\ resp.out.set_cookie.key = "access_token"
    /\ resp.out.set_cookie.httponly
    /\ resp.out.set_cookie.value = <<DQ>> \o Bearer(<<resp.token>>) \o <<DQ>>
    /\ ServerSigned(resp.token)
    /\ resp.token.payload.sub = u.email

\* the request has ended; it carried exactly the cookie the last login set,
\* was sent while logged in and validated `elapsed` ticks after that login
FollowsLogin(q, elapsed) ==
    /\ Ended(q)
    /\ q.via = "jar logged in"
    /\ client.user # None
    /\ q.cookies = ParseCookies(client.kept)
    /\ q.at - client.at = elapsed

\* the request ended Authenticated as the user who logged in
AuthenticatedAsClient(q) == q.looked /\ q.out = client.user

\* C11 (as stated): a successful login answers with a 303 that sets the
\* HTTP-only cookie access_token = "Bearer <token>" with sub = u.email, and a
\* protected request carrying that cookie less than 15 minutes later ends
\* Authenticated as u.
C11_LoginThenRequest ==
    /\ LoginSucceeded => LoginResponseOk
    /\ \A r \in Requests, e \in 0..(DefaultExpireTicks - 1) :
         FollowsLogin(req[r], e) => AuthenticatedAsClient(req[r])

\* C11 (amended): the same, for a request made no more than 15 minutes minus
\* one second after the login.
C11_LoginThenRequestWithinLife ==
    /\ LoginSucceeded => LoginResponseOk
    /\ \A r \in Requests, e \in 0..(DefaultExpireTicks - TicksPerSecond) :
         FollowsLogin(req[r], e) => AuthenticatedAsClient(req[r])

C11_Witness ==
    /\ LoginSucceeded
    /\ client.at > 0
    /\ \E r \in Requests :
         /\ FollowsLogin(req[r], DefaultExpireTicks - TicksPerSecond)
         /\ AuthenticatedAsClient(req[r])

\* the last response is that of a login with an email that no record has, or
\* with another password than the one its record was registered with
LoginFailed ==
    /\ resp # None
    /\ resp.route = "login"
    /\ LET hits == {i \in 1..Len(users) : users[i].email = resp.email} IN
       \/ hits = {}
       \/ \A i \in hits : plain[i] # resp.password

\* C12: a failed login (unknown email or wrong password) answers 401 with the
\* detail "Incorrect email or password", which is neither of the token-error
\* messages; no token is issued and no cookie is set; the answer is the same
\* for an unknown email as for a wrong password.
C12_FailedLogin ==
    LoginFailed =>
      /\ resp.out = [status_code |-> 401,
                     detail |-> "Incorrect email or password", headers |-> ""]
      /\ resp.out.detail \notin {"Not authenticated", "Could not validate credentials"}
      /\ resp.token = None
      /\ "set_cookie" \notin DOMAIN resp.out

\* C13: in every reachable state of the table, the password field of every
\* record is what pwd_context.hash returns for the password the record was
\* registered with, and is never that password itself.
C13_PasswordAtRest ==
    /\ Len(plain) = Len(users)
    /\ \A i \in 1..Len(users) :
         /\ \E salt \in Salts : users[i].password = pwd_context_hash(plain[i], salt)
         /\ users[i].password # plain[i]

C13_Witness ==
    /\ Len(users) = MaxUsers
    /\ \E i, j \in 1..Len(users) : plain[i] = PwHashLike /\ plain[j] = PwLonger

\* C14: after any sequence of registrations, two with the same email among
\* them, one after the other or in flight together, the table holds at most
\* one record per email.
C14_EmailUnique ==
    \A i, j \in 1..Len(users) : users[i].email = users[j].email => i = j

\* two registrations with the same email have ended, the one stored and the
\* other refused
C14_Witness ==
    \E k1, k2 \in Registrations :
      /\ reg[k1].pc = "idle" /\ reg[k2].pc = "idle"
      /\ reg[k1].email = reg[k2].email
      /\ reg[k1].out = RedirectResponse("/login", 303, None)
      /\ reg[k2].out = Unhandled("IntegrityError")
      /\ Len(users) = 1

\* C15: no step of get_current_user, of login or of logout changes the table,
\* the cancellation of a request suspended on the lookup included; the table
\* changes by registration only, which appends one record and leaves the
\* records already there as they are.
C15_Frame ==
    [][ /\ (req' # req \/ resp' # resp \/ client' # client) => users' = users
        /\ users' # users =>
              /\ Len(users') = Len(users) + 1
              /\ SubSeq(users', 1, Len(users)) = users
              /\ req' = req /\ resp' = resp /\ client' = client ]_vars

\* a request was cancelled on its lookup, after a login and a logout, with
\* the table full
C15_Witness ==
    /\ Len(users) = MaxUsers
    /\ resp # None /\ resp.route = "logout"
    /\ client.user # None
    /\ \E r \in Requests : req[r].via = "cancelled"

\* what get_current_user answers to these cookies at clock reading t when
\* its lookup reads the table db
Outcome(cookies, t, db) ==
    LET v == ValidateToken(cookies, t) IN
    IF "raise" \in DOMAIN v THEN v.raise ELSE ResolveIdentity(db, v.email)

\* the tables there have been so far: records are appended only
PastTables == {SubSeq(users, 1, n) : n \in 0..Len(users)}

\* the request replays the cookie of the last login after a logout
ReplaysAfterLogout(q) ==
    /\ q.via = "kept after logout"
    /\ HasCookie(q)
    /\ Len(split(CookieString(q))) = 2
    /\ Len(Extracted(q)) = 1

\* C16: what get_current_user answers is determined by the cookie, the clock
\* reading and the table its lookup read (the key being fixed), whatever
\* logins and logouts came before; and a request that carries the token of a
\* login after the logout of that user, validated before the token's exp, is
\* answered with that user.
C16_Stateless ==
    \A r \in Requests :
      LET q == req[r] IN
      Ended(q) =>
        /\ \E db \in PastTables : q.out = Outcome(q.cookies, q.at, db)
        /\ (ReplaysAfterLogout(q) /\ Unexpired(Extracted(q)[1], q.at)) =>
              /\ q.looked
              /\ IsUser(q.out)
              /\ q.out.email = Extracted(q)[1].payload.sub

\* a replay after logout, late in the token's life, answered with the user
C16_Witness ==
    \E r \in Requests :
      LET q == req[r] IN
      /\ Ended(q) /\ ReplaysAfterLogout(q)
      /\ q.at >= SleepTicks
      /\ IsUser(q.out) /\ q.out = client.user
      /\ client.loggedOut /\ client.jar = EmptyDict

\* the request carried the jar of a client that has applied the deletion of
\* a logout and has not logged in since
AfterLogout(q) == q.via = "jar after logout"

\* C17: logout, whatever cookie its request carries (none, an invalid token,
\* a valid token), answers with a 303 redirect to /login that deletes the
\* access_token cookie; and the next protected request of a client that
\* applied the deletion ends with 401 "Not authenticated".
C17_Logout ==
    /\ (resp # None /\ resp.route = "logout") =>
          resp.out = [status_code |-> 303, location |-> "/login",
                      set_cookie |-> [key |-> "access_token", value |-> <<>>,
                                      httponly |-> FALSE, max_age |-> "0"]]
    /\ \A r \in Requests :
         AfterLogout(req[r]) =>
           /\ Ended(req[r])
           /\ ~req[r].looked
           /\ req[r].out = [status_code |-> 401, detail |-> "Not authenticated",
                            headers |-> "WWW-Authenticate: Bearer"]

\* a logout called with the valid token of a login, then a protected request
C17_Witness ==
    /\ resp # None /\ resp.route = "logout"
    /\ client.kept # EmptyDict
    /\ resp.cookies = ParseCookies(client.kept)
    /\ \E r \in Requests :
         /\ AfterLogout(req[r])
         /\ Unexpired(split(client.kept.access_token)[2][1], req[r].at)

\* the request is suspended on the lookup of the sub of its own token
LooksUpOwnSub(q) ==
    LET v == ValidateToken(q.cookies, q.at) IN
    "email" \in DOMAIN v /\ q.email = v.email

\* C18: with requests in flight together, each suspended on its lookup, every
\* request looks up the subject of its own token and ends with what it would
\* have been answered alone with the same table; the identity it ends with is
\* that of its own token, never that of another request.
C18_Isolation ==
    \A r \in DOMAIN req :
      LET q == req[r] IN
      /\ q.pc = "lookup" => LooksUpOwnSub(q)
      /\ Ended(q) =>
            /\ \E db \in PastTables : q.out = Outcome(q.cookies, q.at, db)
            /\ q.looked => LooksUpOwnSub(q)
            /\ IsUser(q.out) => q.out.email = q.email

\* two requests with tokens of different users were suspended together; the
\* one has ended with its user while the other is still suspended
C18_Witness ==
    \E r1, r2 \in DOMAIN req :
      /\ req[r1].pc = "done" /\ req[r1].looked
      /\ IsUser(req[r1].out) /\ req[r1].out.email = "a@x.com"
      /\ req[r2].pc = "lookup" /\ req[r2].email = "b@x.com"
      /\ Len(users) = MaxUsers

====
